---- MODULE Spec2Model ----
(***************************************************************************)
(* Model of predict.py: the single-shot inference adapter that reads a     *)
(* weather observation from stdin, loads the pickled model, derives the    *)
(* 14-entry feature vector, calls model.predict and turns the prediction   *)
(* into a planting decision printed as JSON.                               *)
(*                                                                         *)
(* Numbers.  Python floats are binary floating-point numbers rounded to    *)
(* nearest, ties to even.  The model keeps that arithmetic with a short    *)
(* significand: a number is an integer count of units of 2^-FracBits, and  *)
(* it is representable when its significand fits in Prec bits.  Every     *)
(* input and every literal of the code is such a number, as every JSON     *)
(* number and literal is a float in the code.                              *)
(***************************************************************************)
EXTENDS Integers, Sequences, FiniteSets, TLC

VARIABLES
    pc,            \* position of main(): the statement about to run
    clock,         \* the last value datetime.now() returned (a day number)
    stdin,         \* what the caller wrote to the process's standard input
    input_data,    \* main's local: the stripped text read from stdin
    weather_data,  \* main's local: the parsed JSON value
    model,         \* main's local: the object load_model returned
    features,      \* main's local: the 1 x 14 array prepare_features returned
    result,        \* main's local: the dict make_prediction returned
    raised,        \* the message of the exception in flight, <<>> if none
    stdout,        \* the lines printed so far
    exit_status,   \* <<>> while running, <<0>> or <<1>> once the process ended
    calls,         \* history: the calls main has made, in order
    observed,      \* history: prediction_value and reference time of the run
    first,         \* the Decider run alone: its first execution
    second         \* the Decider run alone: its second execution

vars == <<pc, clock, stdin, input_data, weather_data, model, features, result,
          raised, stdout, exit_status, calls, observed, first, second>>

mainVars == <<pc, stdin, input_data, weather_data, model, features, result,
              raised, stdout, exit_status, calls, observed>>

----------------------------------------------------------------------------
(* Binary floating point, round to nearest, ties to even.                  *)

Prec == 9

FracBits == Prec + 3

RECURSIVE Pow2(_)
Pow2(k) == IF k = 0 THEN 1 ELSE 2 * Pow2(k - 1)

One == Pow2(FracBits)

Abs(x) == IF x < 0 THEN -x ELSE x

\* The exponent of the unit in the last place of the magnitude a/den.
RECURSIVE UlpExp(_, _, _)
UlpExp(a, den, e) ==
    IF a < den * Pow2(Prec + e) THEN e ELSE UlpExp(a, den, e + 1)

\* The representable number nearest to num/den (in units), ties to even.
RoundNearestEven(num, den) ==
    LET a  == Abs(num)
        e  == UlpExp(a, den, 0)
        u  == den * Pow2(e)
        q  == a \div u
        r  == a % u
        up == (2 * r > u) \/ (2 * r = u /\ q % 2 = 1)
        m  == (IF up THEN q + 1 ELSE q) * Pow2(e)
    IN  IF num < 0 THEN -m ELSE m

Round(num, den) == RoundNearestEven(num, den)

\* The float a source literal or a JSON number n/d denotes.
Lit(n, d) == Round(n * One, d)

fsub(a, b) == Round(a - b, 1)
fadd(a, b) == Round(a + b, 1)
\* a * b and a / b, rounded; a whole factor or divisor is divided out first.
fmul(a, b) ==
    IF b % One = 0 THEN Round(a * (b \div One), 1)
    ELSE IF a % One = 0 THEN Round((a \div One) * b, 1)
    ELSE Round(a * b, One)
fdiv(a, b) ==
    IF b % One = 0 THEN Round(a, b \div One) ELSE Round(a * One, b)

\* int(x): the integer part, toward zero.
int(x) == IF x < 0 THEN -((-x) \div One) ELSE x \div One

\* Python's min(a, b) and max(a, b): the first argument unless the second wins.
min(a, b) == IF b < a THEN b ELSE a
max(a, b) == IF b > a THEN b ELSE a

None == <<>>
Some(x) == <<x>>

----------------------------------------------------------------------------
(* datetime: the proleptic Gregorian calendar.  The clock counts days;     *)
(* day 1 is 1 January of a common year that a leap year follows.           *)

is_leap(year) == year % 4 = 0 /\ (year % 100 # 0 \/ year % 400 = 0)

days_in_month(year, month) ==
    IF month = 2 THEN (IF is_leap(year) THEN 29 ELSE 28)
    ELSE IF month \in {4, 6, 9, 11} THEN 30 ELSE 31

RECURSIVE days_before_month(_, _)
days_before_month(year, month) ==
    IF month = 1 THEN 0
    ELSE days_before_month(year, month - 1) + days_in_month(year, month - 1)

days_in_year(year) == IF is_leap(year) THEN 366 ELSE 365

RECURSIVE month_of(_, _, _)
month_of(year, month, n) ==
    IF n <= days_in_month(year, month) THEN [year |-> year, month |-> month, day |-> n]
    ELSE month_of(year, month + 1, n - days_in_month(year, month))

RECURSIVE from_days(_, _)
from_days(year, n) ==
    IF n <= days_in_year(year) THEN month_of(year, 1, n)
    ELSE from_days(year + 1, n - days_in_year(year))

\* The datetime the clock value d stands for.
datetime(d) == from_days(2027, d)

\* A day of the year counted with the month lengths of a common year.
tm_yday_common(now) == days_before_month(2027, now.month) + now.day

\* now.timetuple().tm_yday
tm_yday(now) == days_before_month(now.year, now.month) + now.day

\* now.isoformat()
isoformat(now) == <<now.year, "-", now.month, "-", now.day>>

----------------------------------------------------------------------------
(* prepare_features                                                        *)

Required == {"temperature", "rainfall", "soil_moisture",
             "temp_7d_avg", "rainfall_7d_sum", "soil_7d_avg"}

\* The keys in the order prepare_features first subscripts weather_data with them.
AccessOrder == <<"temperature", "temp_7d_avg", "rainfall", "rainfall_7d_sum",
                 "soil_moisture", "soil_7d_avg">>

IsObject(v) == v.kind = "object"

Has(v, k) == k \in DOMAIN v.fields

\* The first key of AccessOrder, from position i on, that the object lacks; 0 if none.
RECURSIVE FirstMissing(_, _)
FirstMissing(v, i) ==
    IF i > Len(AccessOrder) THEN 0
    ELSE IF ~Has(v, AccessOrder[i]) THEN i
    ELSE FirstMissing(v, i + 1)

temp_score(w) ==
    IF Lit(18, 1) <= w["temperature"] /\ w["temperature"] <= Lit(30, 1)
    THEN Lit(1, 1) ELSE Lit(1, 2)

rain_score(w) ==
    IF Lit(2, 1) <= w["rainfall"] /\ w["rainfall"] <= Lit(20, 1)
    THEN Lit(1, 1) ELSE Lit(1, 2)

\* The soil band with its lower bound included.
soil_score_inclusive(w) ==
    IF w["soil_moisture"] >= Lit(2, 10) THEN Lit(1, 1) ELSE Lit(1, 2)

soil_score(w) ==
    IF w["soil_moisture"] > Lit(2, 10) THEN Lit(1, 1) ELSE Lit(1, 2)

planting_score(w) ==
    fdiv(fadd(fadd(temp_score(w), rain_score(w)), soil_score(w)), Lit(3, 1))

\* np.sin / np.cos of 2 * pi * day_of_year / 365.25, kept as the application.
np_sin(day_of_year) == [fn |-> "sin", turns |-> <<day_of_year, "/", "365.25">>]
np_cos(day_of_year) == [fn |-> "cos", turns |-> <<day_of_year, "/", "365.25">>]

\* The row of the array, for an object that has the six keys.
feature_row(w, now) ==
    LET day_of_year == tm_yday(now) IN
    << w["temperature"],
       w["rainfall"],
       w["soil_moisture"],
       w["temp_7d_avg"],
       w["rainfall_7d_sum"],
       w["soil_7d_avg"],
       fsub(w["temperature"], w["temp_7d_avg"]),
       fsub(w["rainfall"], fdiv(w["rainfall_7d_sum"], Lit(7, 1))),
       fsub(w["soil_moisture"], w["soil_7d_avg"]),
       Lit(now.month, 1),
       Lit(day_of_year, 1),
       np_sin(day_of_year),
       np_cos(day_of_year),
       planting_score(w) >>

\* Features built with dict.get(key, 0): an absent key reads as 0.
prepare_features_defaults(v, now) ==
    IF ~IsObject(v)
    THEN [ok |-> FALSE,
          message |-> <<"Error preparing features: ", "TypeError">>]
    ELSE [ok |-> TRUE,
          value |-> <<feature_row([k \in Required |->
                                     IF Has(v, k) THEN v.fields[k] ELSE Lit(0, 1)],
                                  now)>>]

\* prepare_features(weather_data), with the datetime its call of now() returned:
\* the array, or the exception it raises.
prepare_features(v, now) ==
    IF ~IsObject(v)
    THEN [ok |-> FALSE,
          message |-> <<"Error preparing features: ", "TypeError">>]
    ELSE IF FirstMissing(v, 1) # 0
    THEN [ok |-> FALSE,
          message |-> <<"Missing required weather data field: ",
                        AccessOrder[FirstMissing(v, 1)]>>]
    ELSE [ok |-> TRUE, value |-> <<feature_row(v.fields, now)>>]

----------------------------------------------------------------------------
(* make_prediction, after model.predict returned prediction_value          *)

\* The threshold taken strictly.
should_plant_strict(prediction_value) == prediction_value > Lit(1, 2)

should_plant(prediction_value) == prediction_value >= Lit(1, 2)

confidence(prediction_value) ==
    IF prediction_value >= Lit(1, 2)
    THEN min(prediction_value, Lit(1, 1))
    ELSE fsub(Lit(1, 1), prediction_value)

\* round(x) of a float x >= 0: the nearest integer, ties to even.
round(x) ==
    LET q == x \div One
        r == x % One
    IN  IF 2 * r > One \/ (2 * r = One /\ q % 2 = 1) THEN q + 1 ELSE q

\* The wait estimate with round() where the code has int().
days_to_optimal_rounded(prediction_value, temp, rain) ==
    IF should_plant(prediction_value) THEN None
    ELSE IF temp < Lit(18, 1)
         THEN Some(max(7, round(fmul(fsub(Lit(18, 1), temp), Lit(2, 1)))))
    ELSE IF temp > Lit(30, 1)
         THEN Some(max(7, round(fmul(fsub(temp, Lit(30, 1)), Lit(3, 2)))))
    ELSE IF rain < Lit(2, 1) THEN Some(14)
    ELSE IF rain > Lit(20, 1) THEN Some(7)
    ELSE Some(7)

days_to_optimal(prediction_value, temp, rain) ==
    IF should_plant(prediction_value) THEN None
    ELSE IF temp < Lit(18, 1)
         THEN Some(max(7, int(fmul(fsub(Lit(18, 1), temp), Lit(2, 1)))))
    ELSE IF temp > Lit(30, 1)
         THEN Some(max(7, int(fmul(fsub(temp, Lit(30, 1)), Lit(3, 2)))))
    ELSE IF rain < Lit(2, 1) THEN Some(14)
    ELSE IF rain > Lit(20, 1) THEN Some(7)
    ELSE Some(7)

prediction_probability(prediction_value) ==
    LET c == confidence(prediction_value) IN
    [ no_plant |-> IF should_plant(prediction_value)
                   THEN fsub(Lit(1, 1), c) ELSE c,
      plant    |-> IF should_plant(prediction_value)
                   THEN c ELSE fsub(Lit(1, 1), c) ]

\* The dict with the temperature read from column 6 (temp_trend) of the row.
decision_trend_column(prediction_value, feats, now) ==
    [ should_plant           |-> should_plant(prediction_value),
      confidence             |-> confidence(prediction_value),
      prediction_value       |-> prediction_value,
      prediction_probability |-> prediction_probability(prediction_value),
      days_to_optimal        |-> days_to_optimal(prediction_value,
                                                 feats[1][7], feats[1][2]),
      model_version          |-> "1.0",
      prediction_timestamp   |-> isoformat(now) ]

\* The dict make_prediction returns.
decision(prediction_value, feats, now) ==
    [ should_plant           |-> should_plant(prediction_value),
      confidence             |-> confidence(prediction_value),
      prediction_value       |-> prediction_value,
      prediction_probability |-> prediction_probability(prediction_value),
      days_to_optimal        |-> days_to_optimal(prediction_value,
                                                 feats[1][1], feats[1][2]),
      model_version          |-> "1.0",
      prediction_timestamp   |-> isoformat(now) ]

----------------------------------------------------------------------------
(* The inputs the model draws.                                             *)

MaxAdvance == 1

\* Clock values at the start: 28 Feb and 31 Dec of the common year, 29 Feb
\* and 31 Dec of the leap year after it.
StartDays == {59, 365, 365 + 60, 365 + 366}

\* What a call of datetime.now() can return when the last one returned d.
Readings(d) == d .. (d + MaxAdvance)

TempInputs == {Lit(10, 1), Lit(57, 4), Lit(18, 1), Lit(25, 1),
               Lit(30, 1), Lit(35, 1), Lit(36, 1)}
RainInputs == {Lit(1, 1), Lit(2, 1), Lit(10, 1), Lit(20, 1), Lit(21, 1)}
SoilInputs == {Lit(2, 10), Lit(3, 10)}

FieldInputs(k) ==
    CASE k = "temperature"     -> TempInputs
      [] k = "rainfall"        -> RainInputs
      [] k = "soil_moisture"   -> SoilInputs
      [] k = "temp_7d_avg"     -> {Lit(23, 1)}
      [] k = "rainfall_7d_sum" -> {Lit(50, 1)}
      [] k = "soil_7d_avg"     -> {Lit(1, 4)}
      [] k = "station"         -> {Lit(7, 1)}

\* A key left out of the object, or the key with one of its inputs.
Entries(k) == {None} \cup {Some(x) : x \in FieldInputs(k)}

Object(e) ==
    [kind |-> "object",
     fields |-> [k \in {j \in DOMAIN e : e[j] # None} |-> e[k][1]]]

\* JSON objects: any subset of the required keys, with or without an extra key.
Objects ==
    { Object([temperature |-> t, rainfall |-> r, soil_moisture |-> s,
              temp_7d_avg |-> ta, rainfall_7d_sum |-> rs, soil_7d_avg |-> sa,
              station |-> x]) :
        t \in Entries("temperature"), r \in Entries("rainfall"),
        s \in Entries("soil_moisture"), ta \in Entries("temp_7d_avg"),
        rs \in Entries("rainfall_7d_sum"), sa \in Entries("soil_7d_avg"),
        x \in Entries("station") }

\* JSON values that are no object.
NonObjects == { [kind |-> "array"] }

\* The text on standard input: blank, no JSON, or the text of a JSON value.
Stdins ==
    { [text |-> "blank"], [text |-> "not json"] }
    \cup { [text |-> "json", value |-> v] : v \in Objects \cup NonObjects }

\* What open() and pickle.load find at 'maize_planting_model.pkl'.
ModelFiles == {"missing", "corrupt", "dict with model", "model"}

\* The last float below 1/2.
BelowHalf == Lit(1, 2) - Pow2(FracBits - Prec - 1)

\* What model.predict does: raise, or return an array whose entry 0 is one
\* of these.  The first is -2^(Prec+1), which is to this format what -2^54
\* is to a float of 53 bits; the others are -0.5, 0, 0.25, the float just
\* below 0.5, 0.5, 0.75, 1 and 1.5.  NaN and the infinities are left out.
PredictionValues ==
    { -Pow2(Prec + 1) * One, Lit(-1, 2), Lit(0, 1), Lit(1, 4), BelowHalf,
      Lit(1, 2), Lit(3, 4), Lit(1, 1), Lit(3, 2) }

PredictOutcomes ==
    { [raises |-> TRUE] } \cup { [raises |-> FALSE, value |-> x] : x \in PredictionValues }

Unset == [kind |-> "unset"]

----------------------------------------------------------------------------
(* main                                                                    *)

\* The statements of main's try block, in order, and where control goes
\* after one of them: on to the next, or to the except clause if it raised.
Steps == <<"read", "parse", "load", "features", "predict", "print">>

RECURSIVE IndexOf(_, _)
IndexOf(step, i) == IF Steps[i] = step THEN i ELSE IndexOf(step, i + 1)

following(step) ==
    IF IndexOf(step, 1) = Len(Steps) THEN "exit" ELSE Steps[IndexOf(step, 1) + 1]

\* Control that goes on to the next statement whether or not the last raised.
after_swallowed(step, ok) == following(step)

after(step, ok) == IF ok THEN following(step) ELSE "except"

Call(name, ok) == Append(calls, [call |-> name, ok |-> ok])

Init ==
    /\ pc = "read"
    /\ clock \in StartDays
    /\ stdin \in Stdins
    /\ input_data = Unset
    /\ weather_data = Unset
    /\ model = Unset
    /\ features = None
    /\ result = Unset
    /\ raised = None
    /\ stdout = <<>>
    /\ exit_status = None
    /\ calls = <<>>
    /\ observed = [prediction_value |-> None, now |-> None]
    /\ first = None
    /\ second = None

\* input_data = sys.stdin.read().strip(); if not input_data: raise
ReadInput ==
    /\ pc = "read"
    /\ LET ok == stdin.text # "blank" IN
       /\ input_data' = IF ok THEN stdin ELSE [text |-> ""]
       /\ raised' = IF ok THEN None ELSE Some(<<"No input data provided via stdin">>)
       /\ calls' = Call("sys.stdin.read", ok)
       /\ pc' = after("read", ok)
    /\ UNCHANGED <<clock, stdin, weather_data, model, features, result, stdout,
                   exit_status, observed, first, second>>

\* weather_data = json.loads(input_data)
ParseInput ==
    /\ pc = "parse"
    /\ LET ok == input_data.text = "json" IN
       /\ weather_data' = IF ok THEN input_data.value ELSE weather_data
       /\ raised' = IF ok THEN None ELSE Some(<<"JSONDecodeError">>)
       /\ calls' = Call("json.loads", ok)
       /\ pc' = after("parse", ok)
    /\ UNCHANGED <<clock, stdin, input_data, model, features, result, stdout,
                   exit_status, observed, first, second>>

\* load_model(): the model, or the exception it raises.
load_model(file) ==
    IF file = "missing"
    THEN [ok |-> FALSE,
          message |-> <<"Model file 'maize_planting_model.pkl' not found. ",
                        "Please train the model first.">>]
    ELSE IF file = "corrupt"
    THEN [ok |-> FALSE,
          message |-> <<"Error loading model: ", "UnpicklingError">>]
    ELSE [ok |-> TRUE, value |-> [kind |-> "regressor"]]

\* model = load_model()
LoadModel ==
    /\ pc = "load"
    /\ \E file \in ModelFiles :
         LET r == load_model(file) IN
         /\ model' = IF r.ok THEN r.value ELSE model
         /\ raised' = IF r.ok THEN None ELSE Some(r.message)
         /\ calls' = Call("load_model", r.ok)
         /\ pc' = after("load", r.ok)
    /\ UNCHANGED <<clock, stdin, input_data, weather_data, features, result,
                   stdout, exit_status, observed, first, second>>

\* features = prepare_features(weather_data)
PrepareFeatures ==
    /\ pc = "features"
    /\ \E d \in Readings(clock) :
         LET r == prepare_features(weather_data, datetime(d)) IN
         /\ clock' = d
         /\ features' = IF r.ok THEN r.value ELSE features
         /\ raised' = IF r.ok THEN None ELSE Some(r.message)
         /\ calls' = Call("prepare_features", r.ok)
         /\ observed' = [observed EXCEPT !.now = Some(datetime(d))]
         /\ pc' = after("features", r.ok)
    /\ UNCHANGED <<stdin, input_data, weather_data, model, result, stdout,
                   exit_status, first, second>>

\* result = make_prediction(model, features)
MakePrediction ==
    /\ pc = "predict"
    /\ \E out \in PredictOutcomes, d \in Readings(clock) :
         LET ok == ~out.raises IN
         /\ clock' = IF ok THEN d ELSE clock
         /\ result' = IF ok THEN decision(out.value, features, datetime(d))
                      ELSE result
         /\ raised' = IF ok THEN None
                      ELSE Some(<<"Error making prediction: ", "model.predict">>)
         /\ observed' = IF ok
                        THEN [observed EXCEPT !.prediction_value = Some(out.value)]
                        ELSE observed
         /\ calls' = Append(Call("model.predict", ok),
                            [call |-> "make_prediction", ok |-> ok])
         /\ pc' = after("predict", ok)
    /\ UNCHANGED <<stdin, input_data, weather_data, model, features, stdout,
                   exit_status, first, second>>

\* print(json.dumps(result)), and main returns: the process ends with status 0.
PrintResult ==
    /\ pc = "print"
    /\ stdout' = Append(stdout, [json |-> result])
    /\ calls' = Call("print", TRUE)
    /\ exit_status' = Some(0)
    /\ pc' = after("print", TRUE)
    /\ UNCHANGED <<clock, stdin, input_data, weather_data, model, features,
                   result, raised, observed, first, second>>

\* The except clause without its sys.exit(1): the process ends with status 0.
HandleException_returns ==
    /\ pc = "except"
    /\ \E d \in Readings(clock) :
         /\ clock' = d
         /\ stdout' = Append(stdout,
                [json |-> [error     |-> TRUE,
                           message   |-> raised[1],
                           timestamp |-> isoformat(datetime(d))]])
    /\ exit_status' = Some(0)
    /\ pc' = "exit"
    /\ UNCHANGED <<stdin, input_data, weather_data, model, features, result,
                   raised, calls, observed, first, second>>

\* except Exception as e: print the error payload; sys.exit(1)
HandleException ==
    /\ pc = "except"
    /\ \E d \in Readings(clock) :
         /\ clock' = d
         /\ stdout' = Append(stdout,
                [json |-> [error     |-> TRUE,
                           message   |-> raised[1],
                           timestamp |-> isoformat(datetime(d))]])
    /\ exit_status' = Some(1)
    /\ pc' = "exit"
    /\ UNCHANGED <<stdin, input_data, weather_data, model, features, result,
                   raised, calls, observed, first, second>>

Next ==
    \/ ReadInput
    \/ ParseInput
    \/ LoadModel
    \/ PrepareFeatures
    \/ MakePrediction
    \/ PrintResult
    \/ HandleException

Spec == Init /\ [][Next]_vars

----------------------------------------------------------------------------
(* The Decider run alone, twice: make_prediction from the point where      *)
(* model.predict has returned, on feature arrays prepare_features built.   *)

SampleObjects ==
    { Object([temperature |-> Some(t), rainfall |-> Some(r),
              soil_moisture |-> Some(Lit(3, 10)), temp_7d_avg |-> Some(ta),
              rainfall_7d_sum |-> Some(Lit(50, 1)), soil_7d_avg |-> Some(Lit(1, 4)),
              station |-> None]) :
        t \in {Lit(10, 1), Lit(25, 1)}, r \in {Lit(1, 1), Lit(10, 1)},
        ta \in {Lit(10, 1), Lit(23, 1)} }

\* The prediction values the two executions are given.
SampleValues == {Lit(-1, 2), Lit(1, 4), Lit(1, 2), Lit(3, 4)}

Execution(prediction_value, v, d) ==
    LET feats == prepare_features(v, datetime(d)).value IN
    Some([prediction_value |-> prediction_value,
          features         |-> feats,
          result           |-> decision(prediction_value, feats, datetime(d))])

InitDecide ==
    /\ pc = "decide"
    /\ clock \in StartDays
    /\ stdin = Unset
    /\ input_data = Unset
    /\ weather_data = Unset
    /\ model = [kind |-> "regressor"]
    /\ features = None
    /\ result = Unset
    /\ raised = None
    /\ stdout = <<>>
    /\ exit_status = None
    /\ calls = <<>>
    /\ observed = [prediction_value |-> None, now |-> None]
    /\ first = None
    /\ second = None

DecideFirst ==
    /\ first = None
    /\ \E x \in SampleValues, v \in SampleObjects, d \in Readings(clock) :
         /\ clock' = d
         /\ first' = Execution(x, v, d)
    /\ UNCHANGED <<mainVars, second>>

DecideSecond ==
    /\ first # None
    /\ second = None
    /\ \E x \in SampleValues, v \in SampleObjects, d \in Readings(clock) :
         /\ clock' = d
         /\ second' = Execution(x, v, d)
    /\ UNCHANGED <<mainVars, first>>

NextDecide == DecideFirst \/ DecideSecond

SpecDecide == InitDecide /\ [][NextDecide]_vars

----------------------------------------------------------------------------
(* Properties of main (specification Spec).                                *)

Half == One \div 2

\* prepare_features has returned the array in this run; its row; the object
\* it was built from.
Built == features # None

Row == features[1]

Given == weather_data.fields

\* make_prediction has returned a Decision in this run.
Decided == result # Unset

ReturnedValue == observed.prediction_value[1]

DecisionKeys == {"should_plant", "confidence", "prediction_value",
                 "prediction_probability", "days_to_optimal", "model_version",
                 "prediction_timestamp"}

ErrorKeys == {"error", "message", "timestamp"}

\* C1: should_plant is true exactly when the prediction value the model
\* returned is at least 0.5, and days_to_optimal is non-null exactly when
\* should_plant is false.
C1_ThresholdAndWait ==
    Decided =>
        /\ result.should_plant <=> ReturnedValue >= Half
        /\ result.days_to_optimal # None <=> ~result.should_plant

\* C1 at the threshold itself: a prediction of exactly 0.5 was printed as a
\* decision to plant, with no wait.
C1_Witness ==
    /\ pc = "exit"
    /\ Decided
    /\ ReturnedValue = Half
    /\ result.should_plant
    /\ result.days_to_optimal = None

\* C2: the confidence of every Decision lies in [0, 1], whatever value the
\* model returned.
C2_ConfidenceInUnitInterval ==
    Decided => 0 <= result.confidence /\ result.confidence <= One

\* C3: plant + no_plant is 1.0, plant is the confidence when should_plant is
\* true and 1 - confidence when it is false, and plant >= no_plant exactly
\* when should_plant is true.
C3_ProbabilitiesConsistent ==
    Decided =>
        LET p == result.prediction_probability IN
        /\ fadd(p.plant, p.no_plant) = One
        /\ p.plant = IF result.should_plant THEN result.confidence
                     ELSE fsub(One, result.confidence)
        /\ p.plant >= p.no_plant <=> result.should_plant

IsDecisionPayload(line) ==
    /\ DOMAIN line.json = DecisionKeys
    /\ line.json = result

IsErrorPayload(line) ==
    /\ DOMAIN line.json = ErrorKeys
    /\ line.json.error = TRUE

\* C4: a run prints nothing until it ends and exactly one payload when it
\* ends: the full Decision with status 0, or the error payload with status 1.
\* Every exception raised reaches the except clause and is printed as the
\* error payload, and control is always at a statement of main or at its end.
C4_ExactlyOnePayload ==
    /\ exit_status = None => stdout = <<>>
    /\ exit_status # None =>
          /\ pc = "exit"
          /\ Len(stdout) = 1
          /\ \/ exit_status = Some(0) /\ raised = None /\ IsDecisionPayload(stdout[1])
             \/ exit_status = Some(1) /\ raised # None /\ IsErrorPayload(stdout[1])
    /\ raised # None =>
          /\ pc \in {"except", "exit"}
          /\ pc = "exit" => stdout[1].json.message = raised[1]
    /\ pc \in {Steps[i] : i \in 1..Len(Steps)} \cup {"except", "exit"}

\* C4 when model.predict raised: the run ended with the one error payload.
C4_Witness ==
    /\ pc = "exit"
    /\ exit_status = Some(1)
    /\ Len(stdout) = 1
    /\ raised = Some(<<"Error making prediction: ", "model.predict">>)

\* The input is a JSON object that lacks one of the six required keys.
LacksField ==
    /\ stdin.text = "json"
    /\ stdin.value.kind = "object"
    /\ Required \ DOMAIN stdin.value.fields # {}

NamesMissingField(message) ==
    /\ Len(message) = 2
    /\ message[1] = "Missing required weather data field: "
    /\ message[2] \in Required \ DOMAIN stdin.value.fields

\* C5, as the specification words it: whenever the object lacks a required
\* key, the run ends with the error payload that names the missing field.
C5_MissingFieldPayload ==
    (pc = "exit" /\ LacksField) =>
        /\ Len(stdout) = 1
        /\ IsErrorPayload(stdout[1])
        /\ NamesMissingField(stdout[1].json.message)

\* C5, as the code has it: whenever the object lacks a required key, no
\* feature array is built and no Decision made from it, and the run
\* ends with status 1 and the one error payload, never a Decision; if
\* load_model succeeded the message names the first absent key in the order
\* the code reads them, and otherwise it is load_model's message.
C5_MissingFieldUnlessModelFails ==
    /\ LacksField => ~Built /\ ~Decided
    /\ (pc = "exit" /\ LacksField) =>
           /\ exit_status = Some(1)
           /\ ~Decided
           /\ Len(stdout) = 1
           /\ IsErrorPayload(stdout[1])
           /\ LET message == stdout[1].json.message IN
              IF model = Unset
              THEN message[1] \in {"Model file 'maize_planting_model.pkl' not found. ",
                                   "Error loading model: "}
              ELSE /\ NamesMissingField(message)
                   /\ \E i \in 1..Len(AccessOrder) :
                        /\ message[2] = AccessOrder[i]
                        /\ \A j \in 1..(i - 1) :
                             AccessOrder[j] \in DOMAIN stdin.value.fields

\* C5 for soil_moisture: an object without it, with the extra key, ended in
\* the payload that names soil_moisture.
C5_Witness ==
    /\ pc = "exit"
    /\ LacksField
    /\ "station" \in DOMAIN stdin.value.fields
    /\ model # Unset
    /\ stdout[1].json.message =
          <<"Missing required weather data field: ", "soil_moisture">>

\* The product of the cold rule, (18 - temperature) * 2, and of the hot rule,
\* (temperature - 30) * 1.5.
ColdProduct(temp) == fmul(fsub(18 * One, temp), 2 * One)
HotProduct(temp) == fmul(fsub(temp, 30 * One), One + Half)

\* The integer part of x >= 0, as the largest n with n <= x.
Floor(x) == CHOOSE n \in 0..(x \div One + 1) : n * One <= x /\ x < (n + 1) * One

\* The rules of the wait estimate, first match winning, with the cold and
\* the hot product already made an integer.
RuleDays(temp, rain, coldDays, hotDays) ==
    IF temp < 18 * One THEN max(7, coldDays)
    ELSE IF temp > 30 * One THEN max(7, hotDays)
    ELSE IF rain < 2 * One THEN 14
    ELSE IF rain > 20 * One THEN 7
    ELSE 7

\* C6, as the specification words it: when should_plant is false,
\* days_to_optimal follows the priority-ordered rules on temperature and
\* rainfall, rounding to the nearest integer.
C6_DaysRounded ==
    (Decided /\ ~result.should_plant) =>
        result.days_to_optimal =
            Some(RuleDays(Row[1], Row[2], round(ColdProduct(Row[1])),
                          round(HotProduct(Row[1]))))

\* C6, as the code has it: the same rules, with the product truncated to its
\* integer part instead of rounded.
C6_DaysTruncated ==
    (Decided /\ ~result.should_plant) =>
        result.days_to_optimal =
            Some(RuleDays(Row[1], Row[2],
                          IF Row[1] < 18 * One THEN Floor(ColdProduct(Row[1])) ELSE 0,
                          IF Row[1] > 30 * One THEN Floor(HotProduct(Row[1])) ELSE 0))

\* C6 on a cold and dry day whose product is 7.5: the cold rule applied (not
\* the dry rule's 14) and gave 7.
C6_Witness ==
    /\ pc = "exit"
    /\ Decided
    /\ ~result.should_plant
    /\ features[1][1] = 14 * One + One \div 4
    /\ features[1][2] = One
    /\ result.days_to_optimal = Some(7)

\* The month the day_of_year n falls in, in the given year.
MonthHolding(year, n) ==
    CHOOSE m \in 1..12 :
        /\ days_before_month(year, m) < n
        /\ n <= days_before_month(year, m) + days_in_month(year, m)

\* C7: the array has one row of 14 entries in the fixed order; the first six
\* are the input values, then the three trends, month in 1..12, day_of_year
\* in 1..366, its sine and cosine, and the planting score; month and
\* day_of_year come from one reading of the clock and denote the same date.
C7_FeatureOrder ==
    Built =>
        /\ Len(features) = 1
        /\ Len(Row) = 14
        /\ Row[1] = Given["temperature"]
        /\ Row[2] = Given["rainfall"]
        /\ Row[3] = Given["soil_moisture"]
        /\ Row[4] = Given["temp_7d_avg"]
        /\ Row[5] = Given["rainfall_7d_sum"]
        /\ Row[6] = Given["soil_7d_avg"]
        /\ Row[7] = Given["temperature"] - Given["temp_7d_avg"]
        /\ Abs(7 * Row[8] - (7 * Given["rainfall"] - Given["rainfall_7d_sum"]))
              <= One \div 8
        /\ Abs(Row[9] - (Given["soil_moisture"] - Given["soil_7d_avg"]))
              <= One \div 64
        /\ Row[10] \in {m * One : m \in 1..12}
        /\ Row[11] \in {n * One : n \in 1..366}
        /\ Row[10] = observed.now[1].month * One
        /\ Row[10] = MonthHolding(observed.now[1].year, Row[11] \div One) * One
        /\ Row[11] \div One - days_before_month(observed.now[1].year,
                                               observed.now[1].month)
              = observed.now[1].day
        /\ Row[12] = np_sin(Row[11] \div One)
        /\ Row[13] = np_cos(Row[11] \div One)
        /\ Row[14] > 0 /\ Row[14] <= One

\* C7 on 1 March of the leap year: month 3 and day_of_year 61.
C7_Witness ==
    /\ Built
    /\ observed.now = Some([year |-> 2028, month |-> 3, day |-> 1])
    /\ Row[10] = 3 * One
    /\ Row[11] = 61 * One

\* How many of the three conditions of the planting score the inputs meet.
Met ==
    (IF 18 * One <= Given["temperature"] /\ Given["temperature"] <= 30 * One
     THEN 1 ELSE 0)
    + (IF 2 * One <= Given["rainfall"] /\ Given["rainfall"] <= 20 * One
       THEN 1 ELSE 0)
    + (IF Given["soil_moisture"] > Lit(2, 10) THEN 1 ELSE 0)

\* C8: planting_score is the float nearest to (3 + n)/6, n the number of the
\* three conditions met (temperature in [18, 30], rainfall in [2, 20],
\* soil_moisture > 0.2), and is 1.0 exactly when all three are met.
C8_PlantingScore ==
    Built =>
        /\ Abs(6 * Row[14] - (3 + Met) * One) <= One \div 8
        /\ Row[14] = One <=> Met = 3

\* C8 at the bounds: temperature 30 and rainfall 2 score 1.0 each, and
\* soil_moisture of exactly 0.2 scores 0.5, so the score is 5/6.
C8_Witness ==
    /\ Built
    /\ Given["temperature"] = 30 * One
    /\ Given["rainfall"] = 2 * One
    /\ Given["soil_moisture"] = Lit(2, 10)
    /\ Abs(6 * Row[14] - 5 * One) <= One \div 8

\* The calls of a run that nothing stops, in order.
CallOrder == <<"sys.stdin.read", "json.loads", "load_model", "prepare_features",
               "model.predict", "make_prediction", "print">>

Failed == \E i \in 1..Len(calls) : ~calls[i].ok

\* C10: the calls of a run are a prefix of the fixed order, so each is made
\* at most once and model.predict only after reading, parsing, loading and
\* feature building succeeded; a failed call is the last call of the run,
\* and after it control is in the except clause or the run has ended.
C10_FixedOrderNoRetry ==
    /\ Len(calls) <= Len(CallOrder)
    /\ \A i \in 1..Len(calls) : calls[i].call = CallOrder[i]
    /\ \A i \in 1..Len(calls) :
         ~calls[i].ok =>
            \/ i = Len(calls)
            \/ i = Len(calls) - 1 /\ calls[i].call = "model.predict"
    /\ Failed => pc \in {"except", "exit"} /\ raised # None
    /\ Cardinality({i \in 1..Len(calls) : calls[i].call = "model.predict"}) <= 1

\* C10 when prepare_features failed: the run ended after four calls, without
\* a call of model.predict.
C10_Witness ==
    /\ pc = "exit"
    /\ Len(calls) = 4
    /\ ~calls[4].ok
    /\ calls[4].call = "prepare_features"
    /\ Len(stdout) = 1

----------------------------------------------------------------------------
(* Properties of the Decider run twice (specification SpecDecide).         *)

SameButTimestamp(a, b) ==
    /\ a.should_plant = b.should_plant
    /\ a.confidence = b.confidence
    /\ a.prediction_value = b.prediction_value
    /\ a.prediction_probability = b.prediction_probability
    /\ a.days_to_optimal = b.days_to_optimal
    /\ a.model_version = b.model_version

BothRan == first # None /\ second # None

\* C9, as the specification words it: two executions with the same prediction
\* value yield Decisions equal in every field but prediction_timestamp.
C9_FunctionOfValue ==
    (BothRan /\ first[1].prediction_value = second[1].prediction_value) =>
        SameButTimestamp(first[1].result, second[1].result)

\* C9, as the code has it: two executions with the same prediction value and
\* the same temperature and rainfall (entries 0 and 1 of the feature row)
\* yield Decisions equal in every field but prediction_timestamp.
C9_FunctionOfValueAndWeather ==
    (/\ BothRan
     /\ first[1].prediction_value = second[1].prediction_value
     /\ first[1].features[1][1] = second[1].features[1][1]
     /\ first[1].features[1][2] = second[1].features[1][2]) =>
        SameButTimestamp(first[1].result, second[1].result)

\* C9 on two negative decisions: same value, temperature and rainfall, the
\* other features and the timestamps different.
C9_Witness ==
    /\ BothRan
    /\ first[1].prediction_value = One \div 4
    /\ second[1].prediction_value = One \div 4
    /\ first[1].features[1][1] = second[1].features[1][1]
    /\ first[1].features[1][2] = second[1].features[1][2]
    /\ first[1].features # second[1].features
    /\ first[1].result.prediction_timestamp # second[1].result.prediction_timestamp
    /\ first[1].result.days_to_optimal # None

====
